---- MODULE Spec2Model ----
(***************************************************************************)
(* Plan-node contracts of proof-of-sql: PlaceholderExpr (ProofExpr),       *)
(* EmptyExec and DemoMockPlan (ProofPlan + ProverEvaluate), and the        *)
(* TableEvaluation aggregate.  One behaviour constructs one node and then  *)
(* runs its prover rounds and/or its verifier evaluation.                  *)
(*                                                                         *)
(* Results are records: [kind |-> "Ok", value |-> v],                      *)
(* [kind |-> "Err", error |-> e], [kind |-> "Panic"] (an abort of the      *)
(* thread, e.g. IndexMap indexing with an absent key), and NotRun before   *)
(* the call was made.                                                      *)
(*                                                                         *)
(* Parameters that the source names with a leading underscore are drawn    *)
(* with \E in the calling action and handed to the operator, which (like   *)
(* the source) never reads them; the state keeps the inputs a node reads   *)
(* and the outcome of every call.                                          *)
(***************************************************************************)
EXTENDS Integers, Sequences, FiniteSets, TLC

\* ------------------------------------------------------------------ bounds
MaxId == 2              \* external ids / direct indexes range over 0..MaxId
MaxParams == 2          \* parameter lists have at most MaxParams entries
MaxRows == 2            \* tables have at most MaxRows rows
MaxPayload == 1         \* BigInt payloads range over 0..MaxPayload
MaxBuilderItems == 1    \* round builders hold 0..MaxBuilderItems items
ScalarModulus == 3      \* the scalar ring is the integers mod ScalarModulus

\* ------------------------------------------------------------ value spaces
Field == 0 .. (ScalarModulus - 1)

ColumnTypes == {"Boolean", "BigInt"}

LiteralValues ==
    [type : {"Boolean"}, payload : BOOLEAN]
        \cup [type : {"BigInt"}, payload : 0 .. MaxPayload]

TableRefs == {"t1", "t2"}

Idents == {"a", "b"}

StoredIdents == {"a"}

\* all finite maps with keys in K and values in V (IndexMap; lookups only)
MapsOver(K, V) == UNION {[D -> V] : D \in SUBSET K}

EmptyMap == [k \in {} |-> 0]

ParamLists == UNION {[1 .. n -> LiteralValues] : n \in 0 .. MaxParams}

\* parameter lists handed to plans, which never read them
PlanParamLists == {ps \in ParamLists : Len(ps) <= 1}

\* the entries of stored columns
CellValues == {0, 1}

BigIntColumns(n) == [type : {"BigInt"}, values : [1 .. n -> CellValues]]

\* tables with no column or with the single BigInt column "a"; every column
\* of a table has the table's row count
Tables ==
    UNION {[columns : {EmptyMap}, num_rows : {n}]
             \cup [columns : [StoredIdents -> BigIntColumns(n)], num_rows : {n}]
           : n \in 0 .. MaxRows}

TableMaps == MapsOver(TableRefs, Tables)

Accessors == MapsOver(TableRefs, MapsOver(StoredIdents, Field))

ChiEvalMaps == MapsOver(TableRefs, Field \X (0 .. MaxRows))

ColumnRefs == [table_ref : TableRefs, column_id : Idents, column_type : {"BigInt"}]

RoundBuilders == [items : 0 .. MaxBuilderItems]

VerificationBuilders == [singleton_chi_evaluation : Field]

\* ---------------------------------------------------------------- results
NotRun == [kind |-> "NotRun"]

Ok(v) == [kind |-> "Ok", value |-> v]

Err(e) == [kind |-> "Err", error |-> e]

Panic == [kind |-> "Panic"]

\* ----------------------------------------------------------- scalar ring
FieldAdd(a, b) == (a + b) % ScalarModulus

FieldMul(a, b) == (a * b) % ScalarModulus

\* LiteralValue::column_type
LiteralValue_column_type(v) == v.type

\* LiteralValue::to_scalar: true -> ONE, false -> ZERO, BigInt(i) -> S::from(i)
LiteralValue_to_scalar(v) ==
    IF v.type = "Boolean"
    THEN (IF v.payload THEN 1 % ScalarModulus ELSE 0)
    ELSE v.payload % ScalarModulus

\* Column::from_literal_with_length: the literal broadcast to `length` rows
Column_from_literal_with_length(literal, length) ==
    [type |-> literal.type, values |-> [r \in 1 .. length |-> literal.payload]]

Table_num_rows(table) == table.num_rows

Some(v) == [some |-> TRUE, v |-> v]

None == [some |-> FALSE]

\* Option<&OwnedTable>: no result, or a result without rows
OwnedTables == {None} \cup {Some(t) : t \in {u \in Tables : u.num_rows = 0}}

TableOptions_new(row_count) == [row_count |-> row_count]

\* Table::try_new_with_options: a table may be built with no column when the
\* options force its row count; every column must have the table's row count
Table_try_new_with_options(columns, options) ==
    IF options.row_count.some
    THEN IF \A c \in DOMAIN columns :
               Len(columns[c].values) = options.row_count.v
         THEN Ok([columns |-> columns, num_rows |-> options.row_count.v])
         ELSE Err([variant |-> "ColumnLengthMismatch"])
    ELSE Err([variant |-> "EmptyTableWithoutSpecifiedRowCount"])

\* Result::unwrap: the Ok value, or an abort
Unwrap(res) == IF res.kind = "Ok" THEN res ELSE Panic

\* From<PlaceholderError> for ProofError, applied by `?` in the verifier
ProofError_from(e) == [variant |-> "ProofError::PlaceholderError", source |-> e]

\* IndexMap's Index impl: map[&key] aborts when the key is absent
IndexMap_index(map, key) ==
    IF key \in DOMAIN map THEN Ok(map[key]) ELSE Panic

\* ------------------------------------------------------- PlaceholderExpr
\* stores the 1-based id
PlaceholderExpr_try_new_off_by_one(id, column_type) ==
    IF id > 0
    THEN Ok([index |-> id, column_type |-> column_type])
    ELSE Err([variant |-> "ZeroPlaceholderId"])

PlaceholderExpr_try_new(id, column_type) ==
    IF id > 0
    THEN Ok([index |-> id - 1, column_type |-> column_type])
    ELSE Err([variant |-> "ZeroPlaceholderId"])

PlaceholderExpr_new_from_index(index, column_type) ==
    [index |-> index, column_type |-> column_type]

PlaceholderExpr_index(self) == self.index

PlaceholderExpr_column_type(self) == self.column_type

\* slice::get with a 0-based position over a 1-based sequence
Slice_get(params, pos) ==
    IF pos < Len(params) THEN Ok(params[pos + 1]) ELSE NotRun

\* reports the 1-based id in the index error
PlaceholderExpr_interpolate_reports_id(self, params) ==
    LET pos == self.index
        got == Slice_get(params, pos)
    IN  IF got.kind # "Ok"
        THEN Err([variant |-> "InvalidPlaceholderIndex",
                  index |-> self.index + 1,
                  num_params |-> Len(params)])
        ELSE LET param_value == got.value
             IN  IF LiteralValue_column_type(param_value) # self.column_type
                 THEN Err([variant |-> "InvalidPlaceholderType",
                           index |-> self.index,
                           expected |-> self.column_type,
                           actual |-> LiteralValue_column_type(param_value)])
                 ELSE Ok(param_value)

\* swaps expected and actual in the type error
PlaceholderExpr_interpolate_swaps_types(self, params) ==
    LET pos == self.index
        got == Slice_get(params, pos)
    IN  IF got.kind # "Ok"
        THEN Err([variant |-> "InvalidPlaceholderIndex",
                  index |-> self.index,
                  num_params |-> Len(params)])
        ELSE LET param_value == got.value
             IN  IF LiteralValue_column_type(param_value) # self.column_type
                 THEN Err([variant |-> "InvalidPlaceholderType",
                           index |-> self.index,
                           expected |-> LiteralValue_column_type(param_value),
                           actual |-> self.column_type])
                 ELSE Ok(param_value)

\* bounds-checks the index but reads the first parameter
PlaceholderExpr_interpolate_first_param(self, params) ==
    LET pos == self.index
        got == IF pos < Len(params) THEN Slice_get(params, 0) ELSE NotRun
    IN  IF got.kind # "Ok"
        THEN Err([variant |-> "InvalidPlaceholderIndex",
                  index |-> self.index,
                  num_params |-> Len(params)])
        ELSE LET param_value == got.value
             IN  IF LiteralValue_column_type(param_value) # self.column_type
                 THEN Err([variant |-> "InvalidPlaceholderType",
                           index |-> self.index,
                           expected |-> self.column_type,
                           actual |-> LiteralValue_column_type(param_value)])
                 ELSE Ok(param_value)

PlaceholderExpr_interpolate(self, params) ==
    LET pos == self.index
        got == Slice_get(params, pos)
    IN  IF got.kind # "Ok"
        THEN Err([variant |-> "InvalidPlaceholderIndex",
                  index |-> self.index,
                  num_params |-> Len(params)])
        ELSE LET param_value == got.value
             IN  IF LiteralValue_column_type(param_value) # self.column_type
                 THEN Err([variant |-> "InvalidPlaceholderType",
                           index |-> self.index,
                           expected |-> self.column_type,
                           actual |-> LiteralValue_column_type(param_value)])
                 ELSE Ok(param_value)

PlaceholderExpr_first_round_evaluate(self, table, params) ==
    LET param_value == PlaceholderExpr_interpolate(self, params)
    IN  IF param_value.kind = "Err"
        THEN param_value
        ELSE Ok(Column_from_literal_with_length(param_value.value,
                                                Table_num_rows(table)))

\* sizes the column by what the builder holds
PlaceholderExpr_final_round_evaluate_builder_len(self, builder, table, params) ==
    LET param_value == PlaceholderExpr_interpolate(self, params)
    IN  IF param_value.kind = "Err"
        THEN param_value
        ELSE Ok(Column_from_literal_with_length(param_value.value,
                                                builder.items))

PlaceholderExpr_final_round_evaluate(self, builder, table, params) ==
    LET param_value == PlaceholderExpr_interpolate(self, params)
    IN  IF param_value.kind = "Err"
        THEN param_value
        ELSE Ok(Column_from_literal_with_length(param_value.value,
                                                Table_num_rows(table)))

\* adds the literal to chi_eval
PlaceholderExpr_verifier_evaluate_adds(self, builder, accessor, chi_eval, params) ==
    LET param_value == PlaceholderExpr_interpolate(self, params)
    IN  IF param_value.kind = "Err"
        THEN Err(ProofError_from(param_value.error))
        ELSE Ok(FieldAdd(chi_eval, LiteralValue_to_scalar(param_value.value)))

\* checks the index but not the type of the bound value
PlaceholderExpr_verifier_evaluate_coerces(self, builder, accessor, chi_eval, params) ==
    LET got == Slice_get(params, self.index)
    IN  IF got.kind # "Ok"
        THEN Err(ProofError_from([variant |-> "InvalidPlaceholderIndex",
                                  index |-> self.index,
                                  num_params |-> Len(params)]))
        ELSE Ok(FieldMul(chi_eval, LiteralValue_to_scalar(got.value)))

PlaceholderExpr_verifier_evaluate(self, builder, accessor, chi_eval, params) ==
    LET param_value == PlaceholderExpr_interpolate(self, params)
    IN  IF param_value.kind = "Err"
        THEN Err(ProofError_from(param_value.error))
        ELSE Ok(FieldMul(chi_eval, LiteralValue_to_scalar(param_value.value)))

\* -------------------------------------------------------- TableEvaluation
TableEvaluation_new(column_evals, chi) ==
    [column_evals |-> column_evals, chi |-> chi]

TableEvaluation_column_evals(self) == self.column_evals

TableEvaluation_chi_eval(self) == self.chi[1]

TableEvaluation_chi(self) == self.chi

\* -------------------------------------------------------------- EmptyExec
EmptyExec_new == EmptyMap

EmptyExec_verifier_evaluate(self, builder, accessor, result, chi_eval_map, params) ==
    Ok(TableEvaluation_new(<<>>, <<builder.singleton_chi_evaluation, 1>>))

\* one row per input table
EmptyExec_first_round_evaluate_counts_tables(self, builder, table_map, params) ==
    Unwrap(Table_try_new_with_options(
               EmptyMap, TableOptions_new(Some(Cardinality(DOMAIN table_map)))))

EmptyExec_first_round_evaluate(self, builder, table_map, params) ==
    Unwrap(Table_try_new_with_options(EmptyMap, TableOptions_new(Some(1))))

EmptyExec_final_round_evaluate(self, builder, table_map, params) ==
    Unwrap(Table_try_new_with_options(EmptyMap, TableOptions_new(Some(1))))

\* ----------------------------------------------------------- DemoMockPlan
ColumnRef_table_ref(column) == column.table_ref

ColumnRef_column_id(column) == column.column_id

DemoMockPlan_verifier_evaluate(self, builder, accessor, result, chi_eval_map, params) ==
    LET table_evals == IndexMap_index(accessor, ColumnRef_table_ref(self.column))
    IN  IF table_evals.kind = "Panic"
        THEN Panic
        ELSE LET column_eval == IndexMap_index(table_evals.value,
                                               ColumnRef_column_id(self.column))
             IN  IF column_eval.kind = "Panic"
                 THEN Panic
                 ELSE LET chi == IndexMap_index(chi_eval_map,
                                                ColumnRef_table_ref(self.column))
                      IN  IF chi.kind = "Panic"
                          THEN Panic
                          ELSE Ok(TableEvaluation_new(<<column_eval.value>>,
                                                      chi.value))

\* keeps only the declared column of the table
DemoMockPlan_first_round_evaluate_projects(self, builder, table_map, params) ==
    LET found == IndexMap_index(table_map, ColumnRef_table_ref(self.column))
    IN  IF found.kind = "Panic"
        THEN Panic
        ELSE Ok([columns |->
                    [c \in DOMAIN found.value.columns
                              \cap {ColumnRef_column_id(self.column)}
                        |-> found.value.columns[c]],
                 num_rows |-> found.value.num_rows])

DemoMockPlan_first_round_evaluate(self, builder, table_map, params) ==
    IndexMap_index(table_map, ColumnRef_table_ref(self.column))

DemoMockPlan_final_round_evaluate(self, builder, table_map, params) ==
    IndexMap_index(table_map, ColumnRef_table_ref(self.column))

\* ------------------------------------------- evaluation at the challenge
\* sum in the scalar ring of f[1] .. f[n]
RECURSIVE FieldSum(_, _)
FieldSum(f, n) == IF n = 0 THEN 0 ELSE FieldAdd(FieldSum(f, n - 1), f[n])

\* evaluation of the length-n all-ones indicator under the row weights ws
ChiEvaluation(ws, n) == FieldSum(ws, n)

\* evaluation of a column under the row weights ws
ColumnEvaluation(column, ws) ==
    FieldSum([r \in 1 .. Len(column.values) |->
                 FieldMul(ws[r], LiteralValue_to_scalar(
                     [type |-> column.type, payload |-> column.values[r]]))],
             Len(column.values))

\* the verifier-side inputs an honest accessor derives from the tables
HonestAccessor(tm, ws) ==
    [t \in DOMAIN tm |->
        [c \in DOMAIN tm[t].columns |-> ColumnEvaluation(tm[t].columns[c], ws)]]

HonestChiEvalMap(tm, ws) ==
    [t \in DOMAIN tm |-> <<ChiEvaluation(ws, tm[t].num_rows), tm[t].num_rows>>]

\* VerifiableQueryResult::verify for a plan whose verifier evaluation is
\* plan_eval: the result table is accepted when its column evaluations and
\* row count agree with the plan's TableEvaluation
QueryResult_verify(plan_eval, result, ws) ==
    IF plan_eval.kind # "Ok"
    THEN plan_eval
    ELSE IF /\ Len(TableEvaluation_column_evals(plan_eval.value))
                  = Cardinality(DOMAIN result.columns)
            /\ \A c \in DOMAIN result.columns :
                  \E k \in DOMAIN TableEvaluation_column_evals(plan_eval.value) :
                      TableEvaluation_column_evals(plan_eval.value)[k]
                          = ColumnEvaluation(result.columns[c], ws)
            /\ TableEvaluation_chi(plan_eval.value)[2] = result.num_rows
            /\ TableEvaluation_chi_eval(plan_eval.value)
                  = ChiEvaluation(ws, result.num_rows)
         THEN Ok(result)
         ELSE Err([variant |-> "ProofError::VerificationError"])

\* ---------------------------------------------------------------- state
VARIABLES pc, kind, self, new_call, params, table, table_map, interp_res, first_res, final_res, verif_res, query_res, chi_eval, accessor, chi_eval_map, vbuilder

\* pc            position of the session
\* kind          which node was constructed
\* self          the node
\* new_call      the constructor call and its outcome
\* params        parameter list read by the expression
\* table         input table of the expression
\* table_map     input tables read by the plan
\* interp_res    outcome of interpolate
\* first_res     outcome of first_round_evaluate
\* final_res     outcome of final_round_evaluate
\* verif_res     outcome of verifier_evaluate
\* query_res     outcome of verifying the proved query result
\* chi_eval      chi evaluation handed to the expression's verifier
\* accessor      column evaluations read by the plan's verifier
\* chi_eval_map  chi evaluations read by the plan's verifier
\* vbuilder      verification builder read by the plan's verifier

vars == <<pc, kind, self, new_call, params, table, table_map, interp_res, first_res, final_res, verif_res, query_res, chi_eval, accessor, chi_eval_map, vbuilder>>

NoTable == [columns |-> EmptyMap, num_rows |-> 0]

Init ==
    /\ pc = "start"
    /\ kind = "None"
    /\ self = NotRun
    /\ new_call = [fn |-> "none"]
    /\ params = <<>>
    /\ table = NoTable
    /\ table_map = EmptyMap
    /\ interp_res = NotRun
    /\ first_res = NotRun
    /\ final_res = NotRun
    /\ verif_res = NotRun
    /\ query_res = NotRun
    /\ chi_eval = 0
    /\ accessor = EmptyMap
    /\ chi_eval_map = EmptyMap
    /\ vbuilder = [singleton_chi_evaluation |-> 0]

TryNew ==
    /\ pc = "start"
    /\ \E id \in 0 .. MaxId, column_type \in ColumnTypes :
          LET res == PlaceholderExpr_try_new(id, column_type)
          IN  /\ new_call' = [fn |-> "try_new", arg |-> id,
                              column_type |-> column_type, res |-> res]
              /\ kind' = "PlaceholderExpr"
              /\ self' = (IF res.kind = "Ok" THEN res.value ELSE NotRun)
              /\ pc' = (IF res.kind = "Ok" THEN "built" ELSE "rejected")
    /\ UNCHANGED <<params, table, table_map, interp_res, first_res, final_res,
                   verif_res, query_res, chi_eval, accessor,
                   chi_eval_map, vbuilder>>

NewFromIndex ==
    /\ pc = "start"
    /\ \E index \in 0 .. MaxId, column_type \in ColumnTypes :
          LET res == PlaceholderExpr_new_from_index(index, column_type)
          IN  /\ new_call' = [fn |-> "new_from_index", arg |-> index,
                              column_type |-> column_type, res |-> Ok(res)]
              /\ kind' = "PlaceholderExpr"
              /\ self' = res
              /\ pc' = "built"
    /\ UNCHANGED <<params, table, table_map, interp_res, first_res, final_res,
                   verif_res, query_res, chi_eval, accessor,
                   chi_eval_map, vbuilder>>

\* a direct call of interpolate, which binds the session's parameter list
Interpolate ==
    /\ pc = "built"
    /\ kind = "PlaceholderExpr"
    /\ \E ps \in ParamLists :
          /\ params' = ps
          /\ interp_res' = PlaceholderExpr_interpolate(self, ps)
    /\ pc' = "bound"
    /\ UNCHANGED <<kind, self, new_call, table, table_map, first_res, final_res,
                   verif_res, query_res, chi_eval, accessor,
                   chi_eval_map, vbuilder>>

ExprFirstRound ==
    /\ pc = "bound"
    /\ kind = "PlaceholderExpr"
    /\ \E t \in Tables :
          /\ table' = t
          /\ first_res' = PlaceholderExpr_first_round_evaluate(self, t, params)
    /\ pc' = "first_done"
    /\ UNCHANGED <<kind, self, new_call, params, table_map, interp_res,
                   final_res, verif_res, query_res, chi_eval, accessor,
                   chi_eval_map, vbuilder>>

ExprFinalRound ==
    /\ pc = "first_done"
    /\ kind = "PlaceholderExpr"
    /\ \E builder \in RoundBuilders :
          final_res' = PlaceholderExpr_final_round_evaluate(self, builder, table, params)
    /\ pc' = "final_done"
    /\ UNCHANGED <<kind, self, new_call, params, table, table_map, interp_res,
                   first_res, verif_res, query_res, chi_eval, accessor,
                   chi_eval_map, vbuilder>>

ExprVerifierEvaluate ==
    /\ pc = "final_done"
    /\ kind = "PlaceholderExpr"
    /\ \E builder \in VerificationBuilders,
          acc \in MapsOver(StoredIdents, Field),
          ce \in Field :
          /\ chi_eval' = ce
          /\ verif_res' = PlaceholderExpr_verifier_evaluate(self, builder, acc, ce, params)
    /\ pc' = "verified"
    /\ UNCHANGED <<kind, self, new_call, params, table, table_map, interp_res,
                   first_res, final_res, query_res, accessor, chi_eval_map,
                   vbuilder>>

NewEmptyExec ==
    /\ pc = "start"
    /\ kind' = "EmptyExec"
    /\ self' = EmptyExec_new
    /\ new_call' = [fn |-> "EmptyExec::new"]
    /\ pc' = "built"
    /\ UNCHANGED <<params, table, table_map, interp_res, first_res, final_res,
                   verif_res, query_res, chi_eval, accessor,
                   chi_eval_map, vbuilder>>

NewDemoMockPlan ==
    /\ pc = "start"
    /\ \E column \in ColumnRefs : self' = [column |-> column]
    /\ kind' = "DemoMockPlan"
    /\ new_call' = [fn |-> "DemoMockPlan"]
    /\ pc' = "built"
    /\ UNCHANGED <<params, table, table_map, interp_res, first_res, final_res,
                   verif_res, query_res, chi_eval, accessor,
                   chi_eval_map, vbuilder>>

EmptyExecFirstRound ==
    /\ pc = "built"
    /\ kind = "EmptyExec"
    /\ \E builder \in RoundBuilders, tm \in TableMaps, ps \in PlanParamLists :
          first_res' = EmptyExec_first_round_evaluate(self, builder, tm, ps)
    /\ pc' = "first_done"
    /\ UNCHANGED <<kind, self, new_call, params, table, table_map, interp_res,
                   final_res, verif_res, query_res, chi_eval, accessor,
                   chi_eval_map, vbuilder>>

EmptyExecFinalRound ==
    /\ pc = "first_done"
    /\ kind = "EmptyExec"
    /\ \E builder \in RoundBuilders, tm \in TableMaps, ps \in PlanParamLists :
          final_res' = EmptyExec_final_round_evaluate(self, builder, tm, ps)
    /\ pc' = "final_done"
    /\ UNCHANGED <<kind, self, new_call, params, table, table_map, interp_res,
                   first_res, verif_res, query_res, chi_eval, accessor,
                   chi_eval_map, vbuilder>>

EmptyExecVerifierEvaluate ==
    /\ pc = "final_done"
    /\ kind = "EmptyExec"
    /\ \E builder \in VerificationBuilders, acc \in Accessors,
          result \in OwnedTables, cem \in ChiEvalMaps, ps \in PlanParamLists :
          /\ vbuilder' = builder
          /\ verif_res' = EmptyExec_verifier_evaluate(self, builder, acc, result, cem, ps)
    /\ pc' = "verified"
    /\ UNCHANGED <<kind, self, new_call, params, table, table_map, interp_res,
                   first_res, final_res, query_res, chi_eval, accessor,
                   chi_eval_map>>

DemoMockFirstRound ==
    /\ pc = "built"
    /\ kind = "DemoMockPlan"
    /\ \E builder \in RoundBuilders, tm \in TableMaps, ps \in PlanParamLists :
          /\ table_map' = tm
          /\ first_res' = DemoMockPlan_first_round_evaluate(self, builder, tm, ps)
    /\ pc' = "first_done"
    /\ UNCHANGED <<kind, self, new_call, params, table, interp_res, final_res,
                   verif_res, query_res, chi_eval, accessor,
                   chi_eval_map, vbuilder>>

DemoMockFinalRound ==
    /\ pc = "first_done"
    /\ kind = "DemoMockPlan"
    /\ \E builder \in RoundBuilders, ps \in PlanParamLists :
          final_res' = DemoMockPlan_final_round_evaluate(self, builder, table_map, ps)
    /\ pc' = "final_done"
    /\ UNCHANGED <<kind, self, new_call, params, table, table_map, interp_res,
                   first_res, verif_res, query_res, chi_eval, accessor,
                   chi_eval_map, vbuilder>>

\* the verifier evaluation on arbitrary verifier-side inputs
DemoMockVerifierEvaluate ==
    /\ pc = "built"
    /\ kind = "DemoMockPlan"
    /\ \E builder \in VerificationBuilders, acc \in Accessors,
          result \in OwnedTables, cem \in ChiEvalMaps, ps \in PlanParamLists :
          /\ accessor' = acc
          /\ chi_eval_map' = cem
          /\ verif_res' = DemoMockPlan_verifier_evaluate(self, builder, acc, result, cem, ps)
    /\ pc' = "verified"
    /\ UNCHANGED <<kind, self, new_call, params, table, table_map, interp_res,
                   first_res, final_res, query_res, chi_eval, vbuilder>>

\* verification of the proved result: the accessor's evaluations are those
\* of the committed tables at the challenge point
DemoMockVerifyQueryResult ==
    /\ pc = "final_done"
    /\ kind = "DemoMockPlan"
    /\ final_res.kind = "Ok"
    /\ \E ps \in PlanParamLists, ws \in [1 .. MaxRows -> Field] :
          LET builder == [singleton_chi_evaluation |-> ChiEvaluation(ws, 1)]
              acc == HonestAccessor(table_map, ws)
              cem == HonestChiEvalMap(table_map, ws)
              ev == DemoMockPlan_verifier_evaluate(self, builder, acc,
                                                   Some(final_res.value), cem, ps)
          IN  /\ accessor' = acc
              /\ chi_eval_map' = cem
              /\ verif_res' = ev
              /\ query_res' = QueryResult_verify(ev, final_res.value, ws)
    /\ pc' = "verified"
    /\ UNCHANGED <<kind, self, new_call, params, table, table_map, interp_res,
                   first_res, final_res, chi_eval, vbuilder>>

Next ==
    \/ TryNew
    \/ NewFromIndex
    \/ Interpolate
    \/ ExprFirstRound
    \/ ExprFinalRound
    \/ ExprVerifierEvaluate
    \/ NewEmptyExec
    \/ NewDemoMockPlan
    \/ EmptyExecFirstRound
    \/ EmptyExecFinalRound
    \/ EmptyExecVerifierEvaluate
    \/ DemoMockFirstRound
    \/ DemoMockFinalRound
    \/ DemoMockVerifierEvaluate
    \/ DemoMockVerifyQueryResult

Spec == Init /\ [][Next]_vars

\* --------------------------------------------------------------- claims
InvalidPlaceholderIndex(i, m) ==
    Err([variant |-> "InvalidPlaceholderIndex", index |-> i, num_params |-> m])

InvalidPlaceholderType(i, expected, actual) ==
    Err([variant |-> "InvalidPlaceholderType", index |-> i,
         expected |-> expected, actual |-> actual])

Interpolated == kind = "PlaceholderExpr" /\ interp_res.kind # "NotRun"

\* C1: interpolate fails with InvalidPlaceholderIndex{index: i, num_params: m}
\* if and only if i >= m, whatever the declared type; when i < m no index
\* error is returned at all.
C1_IndexErrorIffOutOfBounds ==
    Interpolated =>
        LET i == PlaceholderExpr_index(self)
            m == Len(params)
        IN  /\ (interp_res = InvalidPlaceholderIndex(i, m)) <=> (i >= m)
            /\ i < m => ~ (/\ interp_res.kind = "Err"
                           /\ interp_res.error.variant = "InvalidPlaceholderIndex")

\* an out-of-bounds index on a non-empty list whose entries all have the
\* declared type
C1_Witness ==
    /\ Interpolated
    /\ Len(params) > 0
    /\ PlaceholderExpr_index(self) >= Len(params)
    /\ \A k \in DOMAIN params : params[k].type = self.column_type
    /\ interp_res.kind = "Err"

\* C2: with i < len(params) and type(params[i]) = T' different from the
\* declared type T, interpolate fails with
\* InvalidPlaceholderType{index: i, expected: T, actual: T'}.
C2_TypeMismatchIsTypeError ==
    (/\ Interpolated
     /\ PlaceholderExpr_index(self) < Len(params)
     /\ params[PlaceholderExpr_index(self) + 1].type # PlaceholderExpr_column_type(self))
    => interp_res = InvalidPlaceholderType(
                        PlaceholderExpr_index(self),
                        PlaceholderExpr_column_type(self),
                        params[PlaceholderExpr_index(self) + 1].type)

\* the second of two parameters has the wrong type, the first the right one
C2_Witness ==
    /\ Interpolated
    /\ PlaceholderExpr_index(self) = 1
    /\ Len(params) = 2
    /\ params[1].type = self.column_type
    /\ params[2].type # self.column_type
    /\ interp_res.kind = "Err"

\* C3: with i < len(params) and type(params[i]) = T, interpolate succeeds and
\* returns exactly params[i], same kind and same payload.
C3_MatchReturnsTheElement ==
    (/\ Interpolated
     /\ PlaceholderExpr_index(self) < Len(params)
     /\ params[PlaceholderExpr_index(self) + 1].type = PlaceholderExpr_column_type(self))
    => interp_res = Ok(params[PlaceholderExpr_index(self) + 1])

\* the second of two different parameters of the declared type is returned
C3_Witness ==
    /\ Interpolated
    /\ PlaceholderExpr_index(self) = 1
    /\ Len(params) = 2
    /\ params[1].type = params[2].type
    /\ params[1] # params[2]
    /\ interp_res.kind = "Ok"

C5_ProverColumnMatchesVerifier ==
    (kind = "PlaceholderExpr" /\ pc = "verified" /\ interp_res.kind = "Ok") =>
        LET v == interp_res.value
            n == Table_num_rows(table)
            IsBroadcast(res) ==
                /\ res.kind = "Ok"
                /\ res.value.type = v.type
                /\ Len(res.value.values) = n
                /\ \A r \in 1 .. n : res.value.values[r] = v.payload
        IN  /\ IsBroadcast(first_res)
            /\ IsBroadcast(final_res)
            /\ verif_res = Ok((chi_eval * LiteralValue_to_scalar(v)) % ScalarModulus)
            /\ \A ws \in [1 .. n -> Field] :
                  chi_eval = ChiEvaluation(ws, n) =>
                      /\ verif_res.value = ColumnEvaluation(first_res.value, ws)
                      /\ verif_res.value = ColumnEvaluation(final_res.value, ws)

\* a non-zero literal over a full table with an honest, non-zero chi_eval
C5_Witness ==
    /\ kind = "PlaceholderExpr"
    /\ pc = "verified"
    /\ interp_res.kind = "Ok"
    /\ Table_num_rows(table) = MaxRows
    /\ chi_eval # 0
    /\ \E ws \in [1 .. MaxRows -> Field] :
          /\ \A r \in 1 .. MaxRows : ws[r] # 0
          /\ chi_eval = ChiEvaluation(ws, MaxRows)
    /\ verif_res.kind = "Ok"
    /\ verif_res.value # 0

DemoMockMissingReference ==
    \/ self.column.table_ref \notin DOMAIN accessor
    \/ self.column.column_id \notin DOMAIN accessor[self.column.table_ref]
    \/ self.column.table_ref \notin DOMAIN chi_eval_map

\* C6: when the declared column's table is missing from accessor, or the
\* column is missing from that table's entry, or the table is missing from
\* chi_eval_map, DemoMockPlan's verifier_evaluate returns Err(ProofError).
C6_MissingReferenceIsProofError ==
    (/\ kind = "DemoMockPlan"
     /\ verif_res.kind # "NotRun"
     /\ DemoMockMissingReference)
    => verif_res.kind = "Err"

\* C7: EmptyExec's prover rounds always succeed with a table of zero columns
\* and row count 1; its verifier always succeeds with column_evals = [] and
\* chi = (builder.singleton_chi_evaluation(), 1).
C7_EmptyExecIsOneEmptyRow ==
    kind = "EmptyExec" =>
        /\ first_res.kind # "NotRun" =>
              /\ first_res.kind = "Ok"
              /\ DOMAIN first_res.value.columns = {}
              /\ Table_num_rows(first_res.value) = 1
        /\ final_res.kind # "NotRun" =>
              /\ final_res.kind = "Ok"
              /\ DOMAIN final_res.value.columns = {}
              /\ Table_num_rows(final_res.value) = 1
        /\ verif_res.kind # "NotRun" =>
              /\ verif_res.kind = "Ok"
              /\ TableEvaluation_column_evals(verif_res.value) = <<>>
              /\ TableEvaluation_chi(verif_res.value)
                    = <<vbuilder.singleton_chi_evaluation, 1>>

C7_Witness ==
    /\ kind = "EmptyExec"
    /\ pc = "verified"
    /\ first_res.kind = "Ok"
    /\ final_res.kind = "Ok"
    /\ vbuilder.singleton_chi_evaluation = ScalarModulus - 1
    /\ verif_res.kind = "Ok"

\* C8: for PlaceholderExpr, EmptyExec and DemoMockPlan, on the same inputs,
\* first_round_evaluate and final_round_evaluate have identical outcomes (the
\* same column or table, or the same failure), whatever the round builders
\* hold.
C8_RoundsAgree ==
    final_res.kind # "NotRun" => final_res = first_res

\* a placeholder whose two rounds produced a full column
C8_Witness ==
    /\ kind = "PlaceholderExpr"
    /\ final_res.kind = "Ok"
    /\ first_res.kind = "Ok"
    /\ Len(final_res.value.values) = MaxRows

\* C9: DemoMockPlan passes through: when the column's table is among the
\* inputs both prover rounds return that table unchanged; the verifier
\* returns the accessor evaluation of the declared column as the only
\* column_eval and the chi_eval_map entry of the column's table as chi; and
\* verifying the proved result of a one-column table yields the original
\* table.
C9_DemoMockPassThrough ==
    kind = "DemoMockPlan" =>
        LET t == self.column.table_ref
            c == self.column.column_id
        IN  /\ (first_res.kind # "NotRun" /\ t \in DOMAIN table_map)
                  => first_res = Ok(table_map[t])
            /\ (final_res.kind # "NotRun" /\ t \in DOMAIN table_map)
                  => final_res = Ok(table_map[t])
            /\ (verif_res.kind # "NotRun" /\ ~ DemoMockMissingReference)
                  => /\ verif_res.kind = "Ok"
                     /\ TableEvaluation_column_evals(verif_res.value) = <<accessor[t][c]>>
                     /\ TableEvaluation_chi(verif_res.value) = chi_eval_map[t]
            /\ (/\ query_res.kind # "NotRun"
                /\ DOMAIN table_map[t].columns = {c})
                  => query_res = Ok(table_map[t])

\* a one-column table with rows was proved and verified
C9_Witness ==
    /\ kind = "DemoMockPlan"
    /\ query_res.kind = "Ok"
    /\ DOMAIN query_res.value.columns = {self.column.column_id}
    /\ Table_num_rows(query_res.value) = MaxRows
    /\ DOMAIN table_map = TableRefs
    /\ verif_res.kind = "Ok"
    /\ verif_res.value.column_evals # <<0>>

\* C10: for a placeholder and a parameter list, first_round_evaluate,
\* final_round_evaluate and verifier_evaluate either all succeed, or all fail
\* with the same placeholder error, the verifier carrying it inside its
\* ProofError.
C10_ProverVerifierAgreeOnParams ==
    (kind = "PlaceholderExpr" /\ pc = "verified") =>
        \/ /\ first_res.kind = "Ok"
           /\ final_res.kind = "Ok"
           /\ verif_res.kind = "Ok"
        \/ /\ first_res.kind = "Err"
           /\ final_res.kind = "Err"
           /\ verif_res.kind = "Err"
           /\ final_res.error = first_res.error
           /\ verif_res.error.source = first_res.error

\* all three rejected a parameter of the wrong type
C10_Witness ==
    /\ kind = "PlaceholderExpr"
    /\ pc = "verified"
    /\ verif_res.kind = "Err"
    /\ verif_res.error.source.variant = "InvalidPlaceholderType"
    /\ first_res.kind = "Err"

====
